---------------------------- MODULE Spec2Model ----------------------------
(***************************************************************************)
(* State machine of the dashboard's chat component (ChatInterface): two    *)
(* conversation modes, each with its own message timeline and session id,  *)
(* one shared input box and one shared loading flag, and the asynchronous  *)
(* call to the query endpoint; and of the upload component                 *)
(* (DocumentUpload): the list of upload records and, per record, the       *)
(* timers of simulateFileProcessing; and of the shell (App), which mounts  *)
(* the component of the selected tab only, with the document list          *)
(* (DocumentManagement) and its fetch on mount.                            *)
(*                                                                         *)
(* A text is a sequence of pieces; a piece is either one whitespace        *)
(* character or a run of text that neither starts nor ends with            *)
(* whitespace.  <<>> is the empty string.                                  *)
(***************************************************************************)
EXTENDS Naturals, Sequences, FiniteSets, TLC

VARIABLES
    activeMode,         \* useState<ChatMode>('customer')
    customerMessages,   \* timeline of mode customer
    internalMessages,   \* timeline of mode internal
    inputValue,         \* the text in the input box
    isLoading,          \* the single in-flight flag
    customerSessionId,  \* session id of mode customer, or Null
    internalSessionId,  \* session id of mode internal, or Null
    calls,              \* handleSendMessage invocations suspended at their await
    gatewayLog,         \* <<namespace, session_id>> pairs the endpoint has returned
    accepted,           \* per mode: number of sends that passed the guard
    lastOp,             \* the operation performed by the last step
    files,              \* useState<UploadedFile[]>([]) of DocumentUpload
    drivers,            \* per simulateFileProcessing call, by file id: its timer and its progress
    activeTab,          \* useState<TabType>('chat') of App
    documents,          \* useState<Document[]>([]) of DocumentManagement
    loading,            \* useState(true) of DocumentManagement
    error,              \* useState<string | null>(null) of DocumentManagement
    fetches,            \* fetchDocuments invocations suspended at their await
    selections          \* number of setActiveTab calls since App was mounted

vars == <<activeMode, customerMessages, internalMessages, inputValue, isLoading,
          customerSessionId, internalSessionId, calls, gatewayLog,
          accepted, lastOp, files, drivers,
          activeTab, documents, loading, error, fetches, selections>>

\* the state of ChatInterface, but for lastOp
chatVars == <<activeMode, customerMessages, internalMessages, inputValue, isLoading,
              customerSessionId, internalSessionId, calls, gatewayLog, accepted>>

\* the state of DocumentUpload
uploadVars == <<files, drivers>>

\* the state of DocumentManagement
catalogVars == <<documents, loading, error, fetches>>

\* the state of App and of DocumentManagement
shellVars == <<activeTab, documents, loading, error, fetches, selections>>

----------------------------------------------------------------------------
(* Bounds of the model *)

\* accepted sends, over both modes
MaxSends == 2
\* files handed to handleFileUpload, over all its calls
MaxFiles == 2
\* under App: what the user starts in one visit of the page, counted together: tab
\* selections, accepted sends and files handed over
MaxOperations == 3

----------------------------------------------------------------------------
(* Values *)

Modes == {"customer", "internal"}

Other(mode) == IF mode = "customer" THEN "internal" ELSE "customer"

\* string | null: the absent session id
Null == "<null>"
\* a field the response does not have
Undefined == "<undefined>"

\* JavaScript truthiness of a string-or-absent value
Truthy(v) == v \notin {Null, Undefined, ""}

\* the code points String.prototype.trim strips: ECMAScript WhiteSpace (TAB, VT, FF,
\* SP, NBSP, ZWNBSP and the space separators of Unicode) and LineTerminator (LF, CR,
\* LS, PS); a piece that is not an ASCII character is written as its code point
WhiteSpace ==
    {"\t", "U+000B", "\f", " ", "U+00A0", "U+FEFF", "U+1680", "U+2000", "U+2001",
     "U+2002", "U+2003", "U+2004", "U+2005", "U+2006", "U+2007", "U+2008", "U+2009",
     "U+200A", "U+202F", "U+205F", "U+3000"}

LineTerminator == {"\n", "\r", "U+2028", "U+2029"}

IsWhitespace(p) == p \in WhiteSpace \cup LineTerminator

\* what is typed into the input box: nothing, blanks only, a padded text
Texts == { <<>>, <<" ", "\r", "U+00A0">>, <<" ", "a", "\f">> }

RECURSIVE TrimStart(_)
TrimStart(s) ==
    IF s = <<>> THEN <<>>
    ELSE IF IsWhitespace(Head(s)) THEN TrimStart(Tail(s)) ELSE s

RECURSIVE TrimEnd(_)
TrimEnd(s) ==
    IF s = <<>> THEN <<>>
    ELSE IF IsWhitespace(s[Len(s)]) THEN TrimEnd(SubSeq(s, 1, Len(s) - 1)) ELSE s

\* String.prototype.trim
trim(s) == TrimEnd(TrimStart(s))

\* the array of quick questions of a mode
getQuickQueries(mode) ==
    IF mode = "customer"
    THEN << <<"What online degree programs do you offer?">>,
            <<"How do I apply for an MBA program?">>,
            <<"What are the admission requirements?">> >>
    ELSE << <<"Show me student enrollment statistics">>,
            <<"What are our most popular degree programs?">>,
            <<"How is student satisfaction trending?">> >>

\* the quick questions that get clicked
QuickIndexes == {3}

\* the greeting each timeline is constructed with
InitialGreeting(mode) ==
    IF mode = "customer"
    THEN <<"Hello! I'm your virtual education consultant. I can help you find information about our affiliated universities, courses, and programs. How can I assist you today?">>
    ELSE <<"Welcome to internal mode! I have access to all company documents including sales reports, marketing data, and other related information. What would you like to know?">>

\* the greeting clearChat installs
ClearedGreeting(mode) ==
    IF mode = "customer"
    THEN <<"Chat cleared. How can I help you with our products and services today?">>
    ELSE <<"Chat cleared. What internal information would you like to access?">>

ErrorNotice ==
    <<"Sorry, I encountered an error while processing your request. Please try again or check if the API service is running.">>

\* data.answer of a 2xx response
Answers == { <<"answer">> }

\* data.session_id of a 2xx response: missing, empty, or a token
SessionIds == {Undefined, "", "abc", "xyz"}

\* the ways the call can throw: fetch rejects, the status is not 2xx, the body is no JSON
FailureKinds == {"transport", "status", "json"}

\* Date.now().toString() and (Date.now() + 1).toString(): the clock is not modelled,
\* an id made from it is kept as the expression that made it
DateNowId == "Date.now()"
DateNowPlus1Id == "Date.now()+1"

\* a ChatMessage without its timestamp, which only the display reads;
\* isTyping is FALSE where the code leaves it out
ChatMessage(id, type, content, isTyping) ==
    [id |-> id, type |-> type, content |-> content, isTyping |-> isTyping]

----------------------------------------------------------------------------
(* The bindings of one render: lines 56-59 *)

MessagesOf(mode) == IF mode = "customer" THEN customerMessages ELSE internalMessages

SessionIdOf(mode) == IF mode = "customer" THEN customerSessionId ELSE internalSessionId

messages == MessagesOf(activeMode)

sessionId == SessionIdOf(activeMode)

\* the setter a render with the given active mode binds to setMessages
setMessages(mode, new) ==
    IF mode = "customer"
    THEN customerMessages' = new /\ UNCHANGED internalMessages
    ELSE internalMessages' = new /\ UNCHANGED customerMessages

\* variant: one session id slot shared by the two modes
setSessionId_SharedSlot(mode, new) ==
    customerSessionId' = new /\ internalSessionId' = new

\* the setter a render with the given active mode binds to setSessionId
setSessionId(mode, new) ==
    IF mode = "customer"
    THEN customerSessionId' = new /\ UNCHANGED internalSessionId
    ELSE internalSessionId' = new /\ UNCHANGED customerSessionId

----------------------------------------------------------------------------
(* Initial state: the component as constructed *)

Init ==
    /\ activeMode = "customer"
    /\ customerMessages = << ChatMessage("1", "system", InitialGreeting("customer"), FALSE) >>
    /\ internalMessages = << ChatMessage("1", "system", InitialGreeting("internal"), FALSE) >>
    /\ inputValue = <<>>
    /\ isLoading = FALSE
    /\ customerSessionId = Null
    /\ internalSessionId = Null
    /\ calls = <<>>
    /\ gatewayLog = {}
    /\ accepted = [m \in Modes |-> 0]
    /\ lastOp = [op |-> "mount", mode |-> "customer", session_id |-> Undefined]
    /\ files = <<>>
    /\ drivers = <<>>
    /\ activeTab = "chat"
    /\ documents = <<>>
    /\ loading = TRUE
    /\ error = Null
    /\ fetches = <<>>
    /\ selections = 0

----------------------------------------------------------------------------
(* Pieces of handleSendMessage and clearChat *)

\* variant: the guard tests the text without trimming it
CanSend_NoTrim(text, busy) == text # <<>> /\ ~busy

\* the guard of handleSendMessage: if (!inputValue.trim() || isLoading) return
CanSend(text, busy) == trim(text) # <<>> /\ ~busy

\* variant: the loading flag is not raised
LoadingNeverSet == FALSE

\* the value handleSendMessage gives the loading flag before it awaits
LoadingWhileAwaiting == TRUE

\* variant: the session id is never put into the body
RequestBody_NoSession(query, namespace, sid) ==
    [query |-> query, namespace |-> namespace]

\* the body sendMessageToAPI posts: session_id only if there is one
RequestBody(query, namespace, sid) ==
    IF Truthy(sid)
    THEN [query |-> query, namespace |-> namespace, session_id |-> sid]
    ELSE [query |-> query, namespace |-> namespace]

\* variant: only the placeholder is appended
WithUserAndTyping_NoUserMessage(prev, userMessage, typingMessage) ==
    Append(prev, typingMessage)

\* the timeline after the optimistic updates of lines 113 and 125
WithUserAndTyping(prev, userMessage, typingMessage) ==
    Append(Append(prev, userMessage), typingMessage)

\* variant: the setters of the mode that is active when the response arrives
ClosureMode_ActiveAtResponse(call) == activeMode

\* the mode whose setters the suspended invocation closed over
ClosureMode(call) == call.mode

\* variant: a session id is made up locally when the response has none
NewSessionId_Invented(result_session_id, capturedSessionId, current) ==
    IF Truthy(result_session_id) /\ result_session_id # capturedSessionId
    THEN result_session_id
    ELSE IF current = Null THEN "local-session" ELSE current

\* variant: only the first session id is stored
NewSessionId_KeepsFirst(result_session_id, capturedSessionId, current) ==
    IF Truthy(result_session_id) /\ current = Null
    THEN result_session_id
    ELSE current

\* lines 132-134: the session id of the call's mode after a 2xx response
NewSessionId(result_session_id, capturedSessionId, current) ==
    IF Truthy(result_session_id) /\ result_session_id # capturedSessionId
    THEN result_session_id
    ELSE current

\* variant: the placeholder is not filtered out
ReplaceTyping_KeepsPlaceholder(prev, message) == Append(prev, message)

\* prev.filter(m => m.id !== 'typing').concat(message)
ReplaceTyping(prev, message) ==
    Append(SelectSeq(prev, LAMBDA m : m.id # "typing"), message)

\* variant: the fresh greeting is given the role of an answer
ClearedTimeline_AssistantRole(mode) ==
    << ChatMessage(DateNowId, "assistant", ClearedGreeting(mode), FALSE) >>

\* variant: clearChat keeps the placeholder of the call that is under way
ClearedTimeline_KeepsPlaceholder(mode) ==
    << ChatMessage(DateNowId, "system", ClearedGreeting(mode), FALSE) >>
    \o SelectSeq(MessagesOf(mode), LAMBDA m : m.isTyping)

\* the timeline clearChat installs
ClearedTimeline(mode) ==
    << ChatMessage(DateNowId, "system", ClearedGreeting(mode), FALSE) >>

RemoveAt(s, i) == SubSeq(s, 1, i - 1) \o SubSeq(s, i + 1, Len(s))

Op(name, mode, sid) == [op |-> name, mode |-> mode, session_id |-> sid]

----------------------------------------------------------------------------
(* Operations *)

\* the input's onChange; the input is disabled while isLoading
setInputValue(text) ==
    /\ ~isLoading
    /\ inputValue' = text
    /\ lastOp' = Op("setInputValue", activeMode, Undefined)
    /\ UNCHANGED <<uploadVars, shellVars>>
    /\ UNCHANGED <<activeMode, customerMessages, internalMessages, isLoading,
                   customerSessionId, internalSessionId, calls, gatewayLog,
                   accepted>>

\* a click on one of the quick questions of the active mode
quickQuery(index) ==
    /\ index \in DOMAIN getQuickQueries(activeMode)
    /\ inputValue' = getQuickQueries(activeMode)[index]
    /\ lastOp' = Op("quickQuery", activeMode, Undefined)
    /\ UNCHANGED <<uploadVars, shellVars>>
    /\ UNCHANGED <<activeMode, customerMessages, internalMessages, isLoading,
                   customerSessionId, internalSessionId, calls, gatewayLog,
                   accepted>>

\* handleSendMessage up to its await: the guard, the optimistic updates, the request
handleSendMessage ==
    /\ IF CanSend(inputValue, isLoading)
       THEN LET userMessage == ChatMessage(DateNowId, "user", inputValue, FALSE)
                typingMessage == ChatMessage("typing", "assistant", <<>>, TRUE)
            IN  /\ accepted["customer"] + accepted["internal"] < MaxSends
                /\ setMessages(activeMode,
                               WithUserAndTyping(messages, userMessage, typingMessage))
                /\ inputValue' = <<>>
                /\ isLoading' = LoadingWhileAwaiting
                /\ calls' = Append(calls,
                        [mode |-> activeMode,
                         currentQuery |-> inputValue,
                         sessionId |-> sessionId,
                         request |-> RequestBody(inputValue, activeMode, sessionId)])
                /\ accepted' = [accepted EXCEPT ![activeMode] = @ + 1]
       ELSE UNCHANGED <<customerMessages, internalMessages, inputValue, isLoading,
                        calls, accepted>>
    /\ lastOp' = Op("handleSendMessage", activeMode, Undefined)
    /\ UNCHANGED <<uploadVars, shellVars>>
    /\ UNCHANGED <<activeMode, customerSessionId, internalSessionId, gatewayLog>>

\* the rest of handleSendMessage after a 2xx response with a JSON body
handleSendMessageResolved(i, answer, session_id) ==
    /\ i \in DOMAIN calls
    /\ LET call == calls[i]
           mode == ClosureMode(call)
           assistantMessage == ChatMessage(DateNowPlus1Id, "assistant", answer, FALSE)
       IN  /\ setSessionId(mode, NewSessionId(session_id, call.sessionId, SessionIdOf(mode)))
           /\ setMessages(mode, ReplaceTyping(MessagesOf(mode), assistantMessage))
           /\ gatewayLog' = gatewayLog \cup
                  (IF session_id # Undefined
                   THEN {<<call.request.namespace, session_id>>} ELSE {})
           /\ lastOp' = Op("resolved", mode, session_id)
           /\ UNCHANGED <<uploadVars, shellVars>>
    /\ isLoading' = FALSE
    /\ calls' = RemoveAt(calls, i)
    /\ UNCHANGED <<activeMode, inputValue, accepted>>

\* variant: a failure also forgets the session
handleSendMessageFailed_DropsSession(i, kind) ==
    /\ i \in DOMAIN calls
    /\ kind \in FailureKinds
    /\ LET call == calls[i]
           mode == ClosureMode(call)
           errorMessage == ChatMessage(DateNowPlus1Id, "assistant", ErrorNotice, FALSE)
       IN  /\ setMessages(mode, ReplaceTyping(MessagesOf(mode), errorMessage))
           /\ setSessionId(mode, Null)
           /\ lastOp' = Op("failed", mode, Undefined)
           /\ UNCHANGED <<uploadVars, shellVars>>
    /\ isLoading' = FALSE
    /\ calls' = RemoveAt(calls, i)
    /\ UNCHANGED <<activeMode, inputValue, gatewayLog, accepted>>

\* variant: no finally block, the loading flag stays raised after a failure
handleSendMessageFailed_StaysLoading(i, kind) ==
    /\ i \in DOMAIN calls
    /\ kind \in FailureKinds
    /\ LET call == calls[i]
           mode == ClosureMode(call)
           errorMessage == ChatMessage(DateNowPlus1Id, "assistant", ErrorNotice, FALSE)
       IN  /\ setMessages(mode, ReplaceTyping(MessagesOf(mode), errorMessage))
           /\ lastOp' = Op("failed", mode, Undefined)
           /\ UNCHANGED <<uploadVars, shellVars>>
    /\ calls' = RemoveAt(calls, i)
    /\ UNCHANGED <<activeMode, inputValue, isLoading, customerSessionId,
                   internalSessionId, gatewayLog, accepted>>

\* the rest of handleSendMessage after sendMessageToAPI threw
handleSendMessageFailed(i, kind) ==
    /\ i \in DOMAIN calls
    /\ kind \in FailureKinds
    /\ LET call == calls[i]
           mode == ClosureMode(call)
           errorMessage == ChatMessage(DateNowPlus1Id, "assistant", ErrorNotice, FALSE)
       IN  /\ setMessages(mode, ReplaceTyping(MessagesOf(mode), errorMessage))
           /\ lastOp' = Op("failed", mode, Undefined)
           /\ UNCHANGED <<uploadVars, shellVars>>
    /\ isLoading' = FALSE
    /\ calls' = RemoveAt(calls, i)
    /\ UNCHANGED <<activeMode, inputValue, customerSessionId, internalSessionId,
                   gatewayLog, accepted>>

\* variant: clearing also starts a fresh backend session
clearChat_ResetsSession ==
    /\ Len(messages) > 1
    /\ setMessages(activeMode, ClearedTimeline(activeMode))
    /\ setSessionId(activeMode, Null)
    /\ lastOp' = Op("clearChat", activeMode, Undefined)
    /\ UNCHANGED <<uploadVars, shellVars>>
    /\ UNCHANGED <<activeMode, inputValue, isLoading, calls, gatewayLog, accepted>>

\* the Clear button, disabled when messages.length <= 1
clearChat ==
    /\ Len(messages) > 1
    /\ setMessages(activeMode, ClearedTimeline(activeMode))
    /\ lastOp' = Op("clearChat", activeMode, Undefined)
    /\ UNCHANGED <<uploadVars, shellVars>>
    /\ UNCHANGED <<activeMode, inputValue, isLoading, customerSessionId,
                   internalSessionId, calls, gatewayLog, accepted>>

\* variant: switching the mode also starts the selected conversation afresh
switchMode_ResetsTimeline(mode) ==
    /\ activeMode' = mode
    /\ setMessages(mode, ClearedTimeline(mode))
    /\ lastOp' = Op("switchMode", mode, Undefined)
    /\ UNCHANGED <<uploadVars, shellVars>>
    /\ UNCHANGED <<inputValue, isLoading, customerSessionId, internalSessionId, calls,
                   gatewayLog, accepted>>

\* Tabs onValueChange
switchMode(mode) ==
    /\ activeMode' = mode
    /\ lastOp' = Op("switchMode", mode, Undefined)
    /\ UNCHANGED <<uploadVars, shellVars>>
    /\ UNCHANGED <<customerMessages, internalMessages, inputValue, isLoading,
                   customerSessionId, internalSessionId, calls, gatewayLog,
                   accepted>>

Next ==
    \/ \E text \in Texts : setInputValue(text)
    \/ \E index \in QuickIndexes : quickQuery(index)
    \/ handleSendMessage
    \/ \E i \in DOMAIN calls : \E answer \in Answers : \E sid \in SessionIds :
           handleSendMessageResolved(i, answer, sid)
    \/ \E i \in DOMAIN calls : \E kind \in FailureKinds : handleSendMessageFailed(i, kind)
    \/ clearChat
    \/ \E mode \in Modes : switchMode(mode)

\* the endpoint answers or the call throws
Completion ==
    \/ \E i \in DOMAIN calls : \E answer \in Answers : \E sid \in SessionIds :
           handleSendMessageResolved(i, answer, sid)
    \/ \E i \in DOMAIN calls : \E kind \in FailureKinds : handleSendMessageFailed(i, kind)

Spec == Init /\ [][Next]_vars

\* every call to the endpoint eventually returns or throws
SpecGatewayResponds == Spec /\ WF_vars(Completion)

----------------------------------------------------------------------------
(* DocumentUpload: values *)

\* what Math.random() * 20 adds to the upload progress in one tick (a number in
\* [0, 20), taken as a whole number): nothing, or a step that lands on 100 exactly
UploadIncrements == {0, 10}

\* what one Math.random() * 15 adds to the processing progress of a record (a
\* number in [0, 15)): nothing, a step, or a larger step that passes 100 without
\* landing on it
ProcessingIncrements == {0, 7, 14}

\* the File objects handed over: name and size
ReportFile == [name |-> "report.pdf", size |-> 2000000]
NotesFile == [name |-> "notes.txt", size |-> 0]
FileDescriptors == {ReportFile, NotesFile}

\* the FileLists of one drop or one selection: empty, one file, two different
\* files in an order that the names show
FileLists == { <<>>, <<ReportFile>>, <<ReportFile, NotesFile>> }

\* Math.random().toString(36), as a sequence of characters: of 0.5 and of 0.25
RandomDraws == { <<"0", ".", "i">>, <<"0", ".", "9">> }

\* String.prototype.substr(start, length), start counted from 0
substr(s, start, length) ==
    SubSeq(s, start + 1, IF Len(s) < start + length THEN Len(s) ELSE start + length)

\* line 74: Math.random().toString(36).substr(2, 9); nothing compares the id with
\* the ids in use
NewId(draw) == substr(draw, 2, 9)

\* one draw per file of the list
DrawLists(fileList) == [DOMAIN fileList -> RandomDraws]

\* the ids the draws can give
FileIds == {NewId(draw) : draw \in RandomDraws}

\* an UploadedFile without uploadedAt
UploadedFile(id, name, size, status, progress) ==
    [id |-> id, name |-> name, size |-> size, status |-> status, progress |-> progress]

\* one simulateFileProcessing call: the fileId it was called with, the one timer it
\* has scheduled, or "none", its local variable progress, whether the
\* DocumentUpload instance whose setFiles its callbacks call is on the page, and,
\* once that instance has left the page, the list it rendered last
Driver(fileId, timer, progress) ==
    [fileId |-> fileId, timer |-> timer, progress |-> progress, mounted |-> TRUE,
     lastRenderedState |-> <<>>]

\* the ids of the records in a list
IdsOf(list) == {list[k].id : k \in DOMAIN list}

----------------------------------------------------------------------------
(* DocumentUpload: the state updaters *)

\* variant: the new records are put in front of the list
WithNewFiles_Prepends(prev, fileList, draws) ==
    [k \in DOMAIN fileList |->
        UploadedFile(NewId(draws[k]), fileList[k].name, fileList[k].size, "uploading", 0)]
    \o prev

\* lines 73-82: [...prev, ...newFiles], each new record with the id of its draw
WithNewFiles(prev, fileList, draws) ==
    prev \o [k \in DOMAIN fileList |->
                UploadedFile(NewId(draws[k]), fileList[k].name, fileList[k].size,
                             "uploading", 0)]

\* lines 63-65: { ...f, progress } for every record with the id
WithProgress(prev, fileId, progress) ==
    [k \in DOMAIN prev |->
        IF prev[k].id = fileId THEN [prev[k] EXCEPT !.progress = progress] ELSE prev[k]]

\* lines 40-44: { ...f, status: 'processing', progress: 0 } for every record with
\* the id, whatever its status
MarkProcessing(prev, fileId) ==
    [k \in DOMAIN prev |->
        IF prev[k].id = fileId
        THEN [prev[k] EXCEPT !.status = "processing", !.progress = 0]
        ELSE prev[k]]

\* line 50: the places of the records that the updater of the processing interval
\* takes: those with the id in phase processing
ProcessingPlaces(prev, fileId) ==
    {k \in DOMAIN prev : prev[k].id = fileId /\ prev[k].status = "processing"}

\* line 51: Math.random() is called inside prev.map, once for each such record; the
\* increments of one run of the updater, in the order of the calls
IncrementLists(prev, fileId) ==
    [1..Cardinality(ProcessingPlaces(prev, fileId)) -> ProcessingIncrements]

\* the same with every increment above 0
PositiveIncrementLists(prev, fileId) ==
    [1..Cardinality(ProcessingPlaces(prev, fileId)) -> ProcessingIncrements \ {0}]

\* line 51: f.progress + Math.random() * 15 for the record at place k, which gets the
\* increment of its turn: map goes through the list from the front
newProgress(prev, fileId, increments, k) ==
    prev[k].progress
       + increments[Cardinality({j \in ProcessingPlaces(prev, fileId) : j <= k})]

\* variant: the record turns ready with the progress as added up
ProcessingStep_Unclamped(prev, fileId, increments) ==
    [k \in DOMAIN prev |->
        IF k \in ProcessingPlaces(prev, fileId)
        THEN IF newProgress(prev, fileId, increments, k) >= 100
             THEN [prev[k] EXCEPT !.status = "ready",
                                  !.progress = newProgress(prev, fileId, increments, k)]
             ELSE [prev[k] EXCEPT !.progress = newProgress(prev, fileId, increments, k)]
        ELSE prev[k]]

\* lines 49-59: the updater of the processing interval
ProcessingStep(prev, fileId, increments) ==
    [k \in DOMAIN prev |->
        IF k \in ProcessingPlaces(prev, fileId)
        THEN IF newProgress(prev, fileId, increments, k) >= 100
             THEN [prev[k] EXCEPT !.status = "ready", !.progress = 100]
             ELSE [prev[k] EXCEPT !.progress = newProgress(prev, fileId, increments, k)]
        ELSE prev[k]]

\* lines 52-53: the updater clears the processing interval when the new progress of
\* one of the records it takes reaches 100; map goes on with the records behind it
ProcessingIntervalCleared(prev, fileId, increments) ==
    \E k \in ProcessingPlaces(prev, fileId) :
        newProgress(prev, fileId, increments, k) >= 100

\* line 100: prev.filter(f => f.id !== fileId)
WithoutFile(prev, fileId) == SelectSeq(prev, LAMBDA f : f.id # fileId)

\* lines 99-101: what removeFile does to a simulateFileProcessing call: nothing
DriverAfterRemove(driver) == driver

\* lines 19, 40, 49, 63: setFiles in a timer callback is the setter of the
\* DocumentUpload instance that made the call; once that instance is off the page
\* the update is dropped, and the list of a later instance is not its state
setFiles(call, new) == IF drivers[call].mounted THEN new ELSE files

\* the list that an updater of a call is applied to when it is evaluated: the
\* list of the instance on the page, or the list that the instance rendered last
RenderedFiles(call) ==
    IF drivers[call].mounted THEN files ELSE drivers[call].lastRenderedState

\* line 51: the increments that a firing of the processing interval of a call
\* draws. The updater of an instance that is off the page is either not evaluated
\* at all (no draw) or evaluated at once on the list the instance rendered last,
\* as the runtime decides; its result is stored nowhere
ProcessingDraws(call) ==
    IF drivers[call].mounted
    THEN IncrementLists(files, drivers[call].fileId)
    ELSE {<<>>} \cup IncrementLists(RenderedFiles(call), drivers[call].fileId)

\* the same with every increment above 0
PositiveProcessingDraws(call) ==
    IF drivers[call].mounted
    THEN PositiveIncrementLists(files, drivers[call].fileId)
    ELSE {<<>>} \cup PositiveIncrementLists(RenderedFiles(call), drivers[call].fileId)

\* lines 52-53: a firing of the processing interval of a call clears the interval
\* when its updater is evaluated and takes a record to 100
ClearsProcessingInterval(call, increments) ==
    /\ ProcessingPlaces(RenderedFiles(call), drivers[call].fileId) # {}
    /\ increments # <<>>
    /\ ProcessingIntervalCleared(RenderedFiles(call), drivers[call].fileId, increments)

\* the operation on a record id, and the operation or timer of a call
UploadOp(name, fileId) == [op |-> name, id |-> fileId]
CallOp(name, call) == [op |-> name, call |-> call]

----------------------------------------------------------------------------
(* DocumentUpload: operations *)

\* handleFileUpload with a FileList: the records are appended and one
\* simulateFileProcessing call per record starts its upload interval
handleFileUpload(fileList, draws) ==
    /\ Len(drivers) + Len(fileList) <= MaxFiles
    /\ files' = WithNewFiles(files, fileList, draws)
    /\ drivers' = drivers \o [k \in DOMAIN fileList |->
                                Driver(NewId(draws[k]), "uploadInterval", 0)]
    /\ lastOp' = CallOp("handleFileUpload", Len(drivers) + 1)
    /\ UNCHANGED <<chatVars, shellVars>>

\* one firing of uploadInterval of a simulateFileProcessing call
uploadTick(call, increment) ==
    /\ call \in DOMAIN drivers
    /\ drivers[call].timer = "uploadInterval"
    /\ LET fileId == drivers[call].fileId
           progress == drivers[call].progress + increment
       IN  IF progress >= 100
           THEN /\ drivers' = [drivers EXCEPT ![call].timer = "timeout",
                                              ![call].progress = 100]
                /\ files' = setFiles(call, MarkProcessing(files, fileId))
           ELSE /\ drivers' = [drivers EXCEPT ![call].progress = progress]
                /\ files' = setFiles(call, WithProgress(files, fileId, progress))
    /\ lastOp' = CallOp("uploadTick", call)
    /\ UNCHANGED <<chatVars, shellVars>>

\* the setTimeout callback of a call: the processing interval starts
handoffTimeout(call) ==
    /\ call \in DOMAIN drivers
    /\ drivers[call].timer = "timeout"
    /\ drivers' = [drivers EXCEPT ![call].timer = "processingInterval"]
    /\ lastOp' = CallOp("handoffTimeout", call)
    /\ UNCHANGED <<files, chatVars, shellVars>>

\* one firing of processingInterval of a call, with the increments its updater draws
processingTick(call, increments) ==
    /\ call \in DOMAIN drivers
    /\ drivers[call].timer = "processingInterval"
    /\ increments \in ProcessingDraws(call)
    /\ files' = setFiles(call, ProcessingStep(files, drivers[call].fileId, increments))
    /\ drivers' = IF ClearsProcessingInterval(call, increments)
                  THEN [drivers EXCEPT ![call].timer = "none"]
                  ELSE drivers
    /\ lastOp' = CallOp("processingTick", call)
    /\ UNCHANGED <<chatVars, shellVars>>

\* the Remove button of a listed record
removeFile(fileId) ==
    /\ fileId \in IdsOf(files)
    /\ files' = WithoutFile(files, fileId)
    /\ drivers' = [call \in DOMAIN drivers |->
                     IF drivers[call].fileId = fileId
                     THEN DriverAfterRemove(drivers[call])
                     ELSE drivers[call]]
    /\ lastOp' = UploadOp("removeFile", fileId)
    /\ UNCHANGED <<chatVars, shellVars>>

UploadNext ==
    \/ \E fileList \in FileLists : \E draws \in DrawLists(fileList) :
           handleFileUpload(fileList, draws)
    \/ \E call \in DOMAIN drivers : \E increment \in UploadIncrements :
           uploadTick(call, increment)
    \/ \E call \in DOMAIN drivers : handoffTimeout(call)
    \/ \E call \in DOMAIN drivers : \E increments \in ProcessingDraws(call) :
           processingTick(call, increments)
    \/ \E fileId \in FileIds : removeFile(fileId)

\* DocumentUpload alone
SpecUpload == Init /\ [][UploadNext]_vars

\* the steps of DocumentUpload in which every Math.random() of a timer callback is
\* above 0
UploadNextPositive ==
    \/ \E fileList \in FileLists : \E draws \in DrawLists(fileList) :
           handleFileUpload(fileList, draws)
    \/ \E call \in DOMAIN drivers : \E increment \in UploadIncrements \ {0} :
           uploadTick(call, increment)
    \/ \E call \in DOMAIN drivers : handoffTimeout(call)
    \/ \E call \in DOMAIN drivers : \E increments \in PositiveProcessingDraws(call) :
           processingTick(call, increments)
    \/ \E fileId \in FileIds : removeFile(fileId)

\* every increment is above 0 and the timers keep firing
SpecUploadTimersFire ==
    /\ Init /\ [][UploadNextPositive]_vars
    /\ \A call \in 1..MaxFiles :
          /\ WF_vars(\E increment \in UploadIncrements \ {0} : uploadTick(call, increment))
          /\ WF_vars(handoffTimeout(call))
          /\ WF_vars(/\ call \in DOMAIN drivers
                     /\ \E increments \in PositiveProcessingDraws(call) :
                           processingTick(call, increments))

----------------------------------------------------------------------------
(* App and DocumentManagement: values *)

\* type TabType
Tabs == {"upload", "documents", "chat"}

\* a Document of the listing, by its id
Document(id) == [id |-> id]

\* data.documents of a 2xx response
DocumentLists == { <<>>, <<Document(1)>>, <<Document(1), Document(2)>> }

\* the ways the fetch fails: fetch rejects, the status is not 2xx, the body is not JSON
FetchFailureKinds == {"transport", "status", "json"}

\* variant: the catch block sets no message
FetchErrorMessage_Swallowed(kind) == Null

\* err.message of the error that reaches the catch block
FetchErrorMessage(kind) ==
    CASE kind = "status" -> "Failed to fetch documents: Internal Server Error"
      [] kind = "transport" -> "Failed to fetch"
      [] OTHER -> "Unexpected token < in JSON"

\* a fetchDocuments invocation suspended at its await, with the address it fetches
Fetch == [url |-> "http://localhost:8000/documents"]

ShellOp(name, tab) == [op |-> name, tab |-> tab]

FetchOp(name, outcome) == [op |-> name, outcome |-> outcome]

----------------------------------------------------------------------------
(* App and DocumentManagement: the pieces of the operations *)

\* renderContent, lines 35-46: DocumentUpload is rendered only while 'upload' is
\* selected; the list is state of the component, a later instance starts with []
FilesAfterSelect(tab) ==
    IF activeTab = "upload" /\ tab # "upload" THEN <<>> ELSE files

\* renderContent, lines 35-46: the calls that the instance made stay scheduled when
\* it leaves the page, with a setFiles that sets the state of no component there
DriversAfterSelect(tab) ==
    IF activeTab = "upload" /\ tab # "upload"
    THEN [call \in DOMAIN drivers |->
             IF drivers[call].mounted
             THEN [drivers[call] EXCEPT !.mounted = FALSE, !.lastRenderedState = files]
             ELSE drivers[call]]
    ELSE drivers

\* lines 161-163: the catch block does not call setDocuments
DocumentsAfterFailure(prev) == prev

\* renderContent, lines 23-34: ChatInterface is rendered only while 'chat' is
\* selected; a later instance starts from the initial state, and the continuations
\* of the calls under way belong to the instance that is gone
ChatAfterSelect(tab) ==
    IF activeTab = "chat" /\ tab # "chat"
    THEN /\ activeMode' = "customer"
         /\ customerMessages' =
               << ChatMessage("1", "system", InitialGreeting("customer"), FALSE) >>
         /\ internalMessages' =
               << ChatMessage("1", "system", InitialGreeting("internal"), FALSE) >>
         /\ inputValue' = <<>>
         /\ isLoading' = FALSE
         /\ customerSessionId' = Null
         /\ internalSessionId' = Null
         /\ calls' = <<>>
         /\ UNCHANGED <<gatewayLog, accepted>>
    ELSE UNCHANGED chatVars

\* renderContent, lines 47-58, and lines 141-143, 151-153, 170-172:
\* DocumentManagement is rendered only while 'documents' is selected; a new instance
\* starts with [], true, null and its effect calls fetchDocuments, which runs up to
\* its await; the continuation of an invocation whose instance is gone sets the state
\* of no component on the page and is left out
CatalogAfterSelect(tab) ==
    IF (activeTab = "documents") = (tab = "documents")
    THEN UNCHANGED catalogVars
    ELSE /\ documents' = <<>>
         /\ loading' = TRUE
         /\ error' = Null
         /\ fetches' = IF tab = "documents" THEN << Fetch >> ELSE <<>>

\* what the user has started since App was mounted: tab selections, accepted sends
\* and files handed over
Started == selections + accepted["customer"] + accepted["internal"] + Len(drivers)

----------------------------------------------------------------------------
(* App and DocumentManagement: operations *)

\* a button of the navigation: setActiveTab(item.id)
setActiveTab(tab) ==
    /\ Started < MaxOperations
    /\ selections' = selections + 1
    /\ activeTab' = tab
    /\ files' = FilesAfterSelect(tab)
    /\ drivers' = DriversAfterSelect(tab)
    /\ ChatAfterSelect(tab)
    /\ CatalogAfterSelect(tab)
    /\ lastOp' = ShellOp("setActiveTab", tab)

\* the rest of fetchDocuments after a 2xx response with a JSON body
fetchDocumentsResolved(i, list) ==
    /\ i \in DOMAIN fetches
    /\ documents' = list
    /\ loading' = FALSE
    /\ UNCHANGED error
    /\ fetches' = RemoveAt(fetches, i)
    /\ lastOp' = FetchOp("fetchDocumentsResolved", "ok")
    /\ UNCHANGED <<activeTab, selections, chatVars, uploadVars>>

\* the rest of fetchDocuments after the fetch has failed: catch and finally
fetchDocumentsFailed(i, kind) ==
    /\ i \in DOMAIN fetches
    /\ documents' = DocumentsAfterFailure(documents)
    /\ error' = FetchErrorMessage(kind)
    /\ loading' = FALSE
    /\ fetches' = RemoveAt(fetches, i)
    /\ lastOp' = FetchOp("fetchDocumentsFailed", kind)
    /\ UNCHANGED <<activeTab, selections, chatVars, uploadVars>>

\* the user's operations on ChatInterface and on DocumentUpload need the component
\* on the page; the continuations of the chat calls belong to the instance on the
\* page (those of an instance that left are dropped by ChatAfterSelect); the timers
\* of simulateFileProcessing fire wherever the user is. MaxOperations bounds what the
\* user starts
DashboardNext ==
    \/ \E tab \in Tabs : setActiveTab(tab)
    \/ \E i \in DOMAIN fetches : \E list \in DocumentLists : fetchDocumentsResolved(i, list)
    \/ \E i \in DOMAIN fetches : \E kind \in FetchFailureKinds : fetchDocumentsFailed(i, kind)
    \/ activeTab = "chat" /\ \E text \in Texts : setInputValue(text)
    \/ activeTab = "chat" /\ \E index \in QuickIndexes : quickQuery(index)
    \/ activeTab = "chat" /\ (CanSend(inputValue, isLoading) => Started < MaxOperations)
                          /\ handleSendMessage
    \/ \E i \in DOMAIN calls : \E answer \in Answers : \E sid \in SessionIds :
           handleSendMessageResolved(i, answer, sid)
    \/ \E i \in DOMAIN calls : \E kind \in FailureKinds : handleSendMessageFailed(i, kind)
    \/ activeTab = "chat" /\ clearChat
    \/ activeTab = "chat" /\ \E mode \in Modes : switchMode(mode)
    \/ activeTab = "upload" /\ \E fileList \in FileLists : \E draws \in DrawLists(fileList) :
           Started + Len(fileList) <= MaxOperations /\ handleFileUpload(fileList, draws)
    \/ activeTab = "upload" /\ \E fileId \in FileIds : removeFile(fileId)
    \/ \E call \in DOMAIN drivers : \E increment \in UploadIncrements :
           uploadTick(call, increment)
    \/ \E call \in DOMAIN drivers : handoffTimeout(call)
    \/ \E call \in DOMAIN drivers : \E increments \in ProcessingDraws(call) :
           processingTick(call, increments)

\* App with DocumentUpload and DocumentManagement
SpecDashboard == Init /\ [][DashboardNext]_vars

----------------------------------------------------------------------------
(* Vocabulary of the properties *)

\* the suspended calls that were sent for a mode
Outstanding(mode) == {i \in DOMAIN calls : calls[i].request.namespace = mode}

TypingCount(t) == Cardinality({i \in DOMAIN t : t[i].isTyping})

HasTyping(t) == \E i \in DOMAIN t : t[i].isTyping

Finalized(message) == message.type = "assistant" /\ ~message.isTyping

\* every assistant entry directly follows a user message
NoOrphan(t) ==
    \A i \in DOMAIN t : t[i].type = "assistant" => (i > 1 /\ t[i - 1].type = "user")

\* every user message is directly followed by its placeholder or its answer,
\* and no two assistant entries are adjacent
NoInterleaving(t) ==
    /\ \A i \in DOMAIN t : t[i].type = "user" =>
           (i < Len(t) /\ t[i + 1].type = "assistant")
    /\ \A i \in DOMAIN t : (i < Len(t) /\ t[i].type = "assistant") =>
           t[i + 1].type # "assistant"

\* the timeline still starts with the greeting it was constructed with
NeverCleared(mode) ==
    MessagesOf(mode)[1] = ChatMessage("1", "system", InitialGreeting(mode), FALSE)

\* this step is the completion (2xx or throw) of the suspended call i, sent for mode
Completes(i, mode) ==
    /\ calls[i].request.namespace = mode
    /\ Len(calls') < Len(calls)
    /\ calls' = RemoveAt(calls, i)

----------------------------------------------------------------------------
(* C1 *)

\* C1: when a call completes for a mode whose timeline was cleared while the call
\* was outstanding (its placeholder is gone), the timeline afterwards holds no
\* orphaned entry: every assistant entry directly follows a user message.
C1_NoOrphanAfterClear ==
    [][ \A i \in DOMAIN calls : \A m \in Modes :
          (Completes(i, m) /\ ~HasTyping(MessagesOf(m))) => NoOrphan(MessagesOf(m))' ]_vars

----------------------------------------------------------------------------
(* C2 *)

\* C2: the completion of a call is applied to the mode in which the call was sent:
\* that mode's timeline gets the finalized answer or failure notice as its last
\* entry and a returned token goes to that mode's slot, while the other mode's
\* timeline and token stay as they are, whichever mode is active at that moment.
C2_RoutedToOriginatingMode ==
    [][ \A i \in DOMAIN calls : \A m \in Modes :
          Completes(i, m) =>
            /\ MessagesOf(m)' # MessagesOf(m)
            /\ Finalized(MessagesOf(m)[Len(MessagesOf(m))])'
            /\ MessagesOf(Other(m))' = MessagesOf(Other(m))
            /\ SessionIdOf(Other(m))' = SessionIdOf(Other(m))
            /\ (lastOp'.op = "resolved" /\ Truthy(lastOp'.session_id))
                  => SessionIdOf(m)' = lastOp'.session_id ]_vars

\* a response carrying a token arrived while the other mode was active
C2_Witness ==
    /\ lastOp.op = "resolved"
    /\ lastOp.mode # activeMode
    /\ Truthy(lastOp.session_id)
    /\ SessionIdOf(lastOp.mode) = lastOp.session_id
    /\ SessionIdOf(activeMode) = Null
    /\ Len(MessagesOf(lastOp.mode)) = 3
    /\ Len(MessagesOf(activeMode)) = 1

----------------------------------------------------------------------------
(* C3 *)

\* C3: while a call for one mode is outstanding and none for the other, a send with
\* non-empty text in the other mode is accepted: it issues a second call, so that
\* both modes have a call outstanding.
C3_OtherModeSendAccepted ==
    [][ ( /\ lastOp'.op = "handleSendMessage"
          /\ Outstanding(Other(activeMode)) # {}
          /\ Outstanding(activeMode) = {}
          /\ trim(inputValue) # <<>> )
        => /\ Len(calls') = Len(calls) + 1
           /\ Outstanding("customer")' # {}
           /\ Outstanding("internal")' # {} ]_vars

----------------------------------------------------------------------------
(* C4 *)

\* C4: at most one call is outstanding for any mode, and answers do not interleave:
\* in each timeline every user message is directly followed by its own placeholder
\* or answer, and no two assistant entries are adjacent.
C4_ExclusivePerMode ==
    \A m \in Modes :
        /\ Cardinality(Outstanding(m)) <= 1
        /\ NoInterleaving(MessagesOf(m))

\* a second call of a mode is outstanding after the first one was answered
C4_Witness ==
    \E m \in Modes :
        /\ accepted[m] = 2
        /\ Cardinality(Outstanding(m)) = 1
        /\ Len(MessagesOf(m)) = 5
        /\ Finalized(MessagesOf(m)[3])
        /\ MessagesOf(m)[5].isTyping

----------------------------------------------------------------------------
(* C5 *)

\* C5: for a mode that was never cleared, once no call of the mode is outstanding
\* the timeline is the greeting followed by one (user message, finalized assistant
\* message) pair per accepted send: its length is 1 + 2 * accepted.
C5_TwoEntriesPerCall ==
    \A m \in Modes :
        (NeverCleared(m) /\ Outstanding(m) = {}) =>
            /\ Len(MessagesOf(m)) = 1 + 2 * accepted[m]
            /\ \A k \in 1..accepted[m] :
                   /\ MessagesOf(m)[2 * k].type = "user"
                   /\ Finalized(MessagesOf(m)[2 * k + 1])

\* two sends of one mode have both completed
C5_Witness ==
    \E m \in Modes :
        /\ NeverCleared(m)
        /\ Outstanding(m) = {}
        /\ accepted[m] = 2
        /\ Len(MessagesOf(m)) = 5

----------------------------------------------------------------------------
(* C6 *)

\* C6: every timeline holds at most one entry with the typing flag, in every state;
\* and when a call completes for a mode whose timeline holds the placeholder, the
\* timeline afterwards is the same entries without the placeholder followed by one
\* finalized assistant message: the same length, and no typing entry left.
C6_OnePlaceholderReplaced ==
    /\ [](\A m \in Modes : TypingCount(MessagesOf(m)) <= 1)
    /\ [][ \A i \in DOMAIN calls : \A m \in Modes :
             (Completes(i, m) /\ HasTyping(MessagesOf(m))) =>
                /\ Len(MessagesOf(m))' = Len(MessagesOf(m))
                /\ ~HasTyping(MessagesOf(m))'
                /\ Finalized(MessagesOf(m)[Len(MessagesOf(m))])'
                /\ \A k \in 1..(Len(MessagesOf(m)) - 1) :
                       ~MessagesOf(m)[k].isTyping /\ MessagesOf(m)[k]' = MessagesOf(m)[k]
           ]_vars

\* a placeholder has just been replaced by the failure notice
C6_Witness ==
    /\ lastOp.op = "failed"
    /\ Len(MessagesOf(lastOp.mode)) = 3
    /\ MessagesOf(lastOp.mode)[2].type = "user"
    /\ MessagesOf(lastOp.mode)[3] =
           ChatMessage(DateNowPlus1Id, "assistant", ErrorNotice, FALSE)

----------------------------------------------------------------------------
(* C7 *)

\* C7: a step of mode m's send cycle (the send in the active mode m, the success or
\* the failure of a call sent for m) and clearChat in the active mode m leave the
\* other mode's timeline and the other mode's token unchanged.
C7_ModeIsolation ==
    [][ /\ \A i \in DOMAIN calls : \A m \in Modes :
             Completes(i, m) =>
                /\ MessagesOf(Other(m))' = MessagesOf(Other(m))
                /\ SessionIdOf(Other(m))' = SessionIdOf(Other(m))
        /\ \A m \in Modes :
             (lastOp'.op \in {"handleSendMessage", "clearChat"} /\ activeMode = m) =>
                /\ MessagesOf(Other(m))' = MessagesOf(Other(m))
                /\ SessionIdOf(Other(m))' = SessionIdOf(Other(m))
                /\ SessionIdOf(m)' = SessionIdOf(m)
      ]_vars

\* the first customer query has just been answered with session_id "abc"
C7_Witness ==
    /\ lastOp = Op("resolved", "customer", "abc")
    /\ accepted = [m \in Modes |-> IF m = "customer" THEN 1 ELSE 0]
    /\ Len(customerMessages) = 3
    /\ customerSessionId = "abc"
    /\ internalSessionId = Null
    /\ Len(internalMessages) = 1

----------------------------------------------------------------------------
(* C8 *)

\* C8: a step that switches the mode changes nothing but the selection: both
\* timelines, both tokens, the suspended calls, the loading flag and what the
\* endpoint has been asked and has returned stay as they are.
C8_SwitchModeOnlySelects ==
    [][ (lastOp'.op = "switchMode" \/ activeMode' # activeMode) =>
          UNCHANGED <<customerMessages, internalMessages, customerSessionId,
                      internalSessionId, calls, isLoading, gatewayLog, accepted>> ]_vars

\* the mode was switched to internal and back: internal holds an answered query
\* and a token, customer is active again
C8_Witness ==
    /\ lastOp.op = "switchMode"
    /\ activeMode = "customer"
    /\ accepted["internal"] = 1
    /\ Len(internalMessages) = 3
    /\ Truthy(internalSessionId)
    /\ Len(customerMessages) = 1

----------------------------------------------------------------------------
(* C9 *)

\* C9: each mode's token is absent, or is a session_id the endpoint returned in a
\* 2xx response to a request sent with that mode as its namespace.
C9_TokensComeFromGateway ==
    \A m \in Modes :
        SessionIdOf(m) # Null => (<<m, SessionIdOf(m)>> \in gatewayLog)

\* both modes hold a token, and they differ
C9_Witness ==
    /\ customerSessionId = "abc"
    /\ internalSessionId = "xyz"
    /\ <<"internal", "abc">> \notin gatewayLog

----------------------------------------------------------------------------
(* C10 *)

\* C10: when a call sent for mode m succeeds, m's token afterwards is the returned
\* session_id if the response carries one, and is unchanged if it carries none.
\* A session_id that is the empty string counts as none, as in the code's test.
C10_TokenAfterSuccess ==
    [][ \A i \in DOMAIN calls : \A m \in Modes :
          (Completes(i, m) /\ lastOp'.op = "resolved") =>
             IF Truthy(lastOp'.session_id)
             THEN SessionIdOf(m)' = lastOp'.session_id
             ELSE SessionIdOf(m)' = SessionIdOf(m) ]_vars

\* a token "abc" has just been overwritten by "xyz"
C10_Witness ==
    /\ lastOp.op = "resolved"
    /\ lastOp.session_id = "xyz"
    /\ SessionIdOf(lastOp.mode) = "xyz"
    /\ accepted[lastOp.mode] = 2
    /\ gatewayLog = {<<lastOp.mode, "abc">>, <<lastOp.mode, "xyz">>}

----------------------------------------------------------------------------
(* C11 *)

\* C11: when a call sent for mode m fails, m's timeline afterwards ends with the
\* fixed failure notice as a finalized assistant message and holds no placeholder
\* (the placeholder, where present, is replaced: the length is unchanged), and both
\* tokens are unchanged; m's token is still the one the call was sent with.
C11_FailureNoticeKeepsToken ==
    [][ \A i \in DOMAIN calls : \A m \in Modes :
          (Completes(i, m) /\ lastOp'.op = "failed") =>
             /\ (MessagesOf(m)[Len(MessagesOf(m))])' =
                    ChatMessage(DateNowPlus1Id, "assistant", ErrorNotice, FALSE)
             /\ ~HasTyping(MessagesOf(m))'
             /\ HasTyping(MessagesOf(m)) => Len(MessagesOf(m))' = Len(MessagesOf(m))
             /\ SessionIdOf(m)' = SessionIdOf(m)
             /\ SessionIdOf(m) = calls[i].sessionId
             /\ SessionIdOf(Other(m))' = SessionIdOf(Other(m)) ]_vars

\* a call of a mode that already holds a token has just failed
C11_Witness ==
    /\ lastOp.op = "failed"
    /\ Truthy(SessionIdOf(lastOp.mode))
    /\ Len(MessagesOf(lastOp.mode)) = 5
    /\ MessagesOf(lastOp.mode)[5].content = ErrorNotice
    /\ ~HasTyping(MessagesOf(lastOp.mode))

----------------------------------------------------------------------------
(* C12 *)

\* C12: the request of every accepted send names the active mode as namespace,
\* carries the typed text as query, and carries as session_id the active mode's
\* token of that moment; it has no session_id field exactly when there is no token.
C12_RequestCarriesToken ==
    [][ (Len(calls') = Len(calls) + 1) =>
          /\ (calls[Len(calls)].request.namespace)' = activeMode
          /\ (calls[Len(calls)].request.query)' = inputValue
          /\ ("session_id" \in DOMAIN calls[Len(calls)].request)' <=> (sessionId # Null)
          /\ (sessionId # Null) => (calls[Len(calls)].request.session_id)' = sessionId
      ]_vars

\* the request that follows a success which returned "abc" carries "abc"
C12_Witness ==
    /\ Len(calls) = 1
    /\ accepted[calls[1].request.namespace] = 2
    /\ <<calls[1].request.namespace, "abc">> \in gatewayLog
    /\ "session_id" \in DOMAIN calls[1].request
    /\ calls[1].request.session_id = "abc"

----------------------------------------------------------------------------
(* C13 *)

\* C13: an invocation of handleSendMessage with a text that is empty after trimming,
\* or while a call is in flight, changes nothing: no timeline, no token, no call,
\* not the loading flag, not the input box.
C13_IgnoredSendChangesNothing ==
    [][ (lastOp'.op = "handleSendMessage" /\ (trim(inputValue) = <<>> \/ calls # <<>>)) =>
          UNCHANGED <<activeMode, customerMessages, internalMessages, inputValue,
                      isLoading, customerSessionId, internalSessionId, calls,
                      gatewayLog, accepted>> ]_vars

\* a send of blanks has just been ignored
C13_Witness ==
    /\ lastOp.op = "handleSendMessage"
    /\ inputValue = <<" ", "\r", "U+00A0">>
    /\ calls = <<>>
    /\ ~isLoading
    /\ Len(messages) = 1

----------------------------------------------------------------------------
(* C14 *)

\* C14: provided the endpoint eventually returns or throws, an outstanding call
\* leads to a state with no outstanding call and the loading flag down, in which
\* submission is enabled again; a failure lowers the flag in its own step.
C14_SubmissionEnabledAgain ==
    /\ (calls # <<>>) ~> (calls = <<>> /\ ~isLoading)
    /\ [][ (lastOp'.op = "failed" /\ Len(calls') < Len(calls) /\ Len(calls) = 1)
             => ~isLoading' ]_vars

\* after a failure the next send of the mode was accepted
C14_Witness ==
    \E m \in Modes :
        /\ accepted[m] = 2
        /\ Outstanding(m) # {}
        /\ Len(MessagesOf(m)) = 5
        /\ MessagesOf(m)[3].content = ErrorNotice

----------------------------------------------------------------------------
(* C15 *)

\* C15: right after clearChat the active mode's timeline is exactly one message,
\* of role system, whatever it held before.
C15_ClearLeavesOneSystemMessage ==
    [][ lastOp'.op = "clearChat" =>
          \A m \in Modes : activeMode = m =>
             /\ Len(MessagesOf(m))' = 1
             /\ (MessagesOf(m)[1].type)' = "system"
             /\ ~HasTyping(MessagesOf(m))' ]_vars

\* a timeline holding a pending placeholder has just been cleared
C15_Witness ==
    /\ lastOp.op = "clearChat"
    /\ Outstanding(activeMode) # {}
    /\ messages = ClearedTimeline(activeMode)

----------------------------------------------------------------------------
(* C16 *)

\* C16: clearChat leaves both tokens unchanged.
C16_ClearKeepsToken ==
    [][ lastOp'.op = "clearChat" =>
          UNCHANGED <<customerSessionId, internalSessionId>> ]_vars

\* the first query after a clear carries the token established before the clear
C16_Witness ==
    /\ Len(calls) = 1
    /\ "session_id" \in DOMAIN calls[1].request
    /\ calls[1].request.session_id = "abc"
    /\ SessionIdOf(calls[1].request.namespace) = "abc"
    /\ Len(MessagesOf(calls[1].request.namespace)) = 3
    /\ MessagesOf(calls[1].request.namespace)[1].content
           = ClearedGreeting(calls[1].request.namespace)

----------------------------------------------------------------------------
(* C28 *)

\* C28: a timeline has a placeholder only while a call sent for its mode is
\* outstanding; a placeholder is the last message of its timeline and directly
\* follows the user message with the query of that call; with no call outstanding
\* no timeline has a placeholder.
C28_PlaceholderOnlyWhileOutstanding ==
    \A mode \in Modes :
        LET t == MessagesOf(mode)
        IN  /\ HasTyping(t) => Outstanding(mode) # {}
            /\ calls = <<>> => ~HasTyping(t)
            /\ \A i \in DOMAIN t :
                  t[i].isTyping =>
                     /\ i = Len(t)
                     /\ i > 1
                     /\ t[i - 1].type = "user"
                     /\ \E c \in Outstanding(mode) :
                           t[i - 1].content = calls[c].request.query

\* the internal timeline ends with a placeholder while the customer mode is shown,
\* after an earlier call of the internal mode has been answered
C28_Witness ==
    /\ activeMode = "customer"
    /\ HasTyping(internalMessages)
    /\ Len(internalMessages) = 5
    /\ Outstanding("internal") # {}

----------------------------------------------------------------------------
(* C25 *)

\* C25: when the fetch of the document list fails, in any of the three ways, the
\* step sets the message of the error banner, leaves the list of documents as it
\* was and lowers the loading flag.
C25_FailedFetchKeepsList ==
    [][ \A kind \in FetchFailureKinds :
          lastOp' = FetchOp("fetchDocumentsFailed", kind) =>
             /\ Truthy(error')
             /\ error' = FetchErrorMessage(kind)
             /\ documents' = documents
             /\ loading' = FALSE
             /\ fetches' = <<>> ]_vars

\* the listing endpoint has answered 500 to the fetch of the first visit of the tab
C25_Witness ==
    /\ lastOp = FetchOp("fetchDocumentsFailed", "status")
    /\ activeTab = "documents"
    /\ error = "Failed to fetch documents: Internal Server Error"
    /\ documents = <<>>
    /\ ~loading

----------------------------------------------------------------------------
(* Vocabulary of the upload properties *)

\* a record with this id is in the list, in this phase
InPhase(fileId, status) ==
    \E k \in DOMAIN files : files[k].id = fileId /\ files[k].status = status

\* a record with this id is in the list, in this phase and with this progress
InPhaseAt(fileId, status, progress) ==
    \E k \in DOMAIN files :
        files[k].id = fileId /\ files[k].status = status /\ files[k].progress = progress

\* the simulateFileProcessing calls that were made with this id
CallsOf(fileId) == {call \in DOMAIN drivers : drivers[call].fileId = fileId}

\* a record with this id was created and no record with it is in the list
Removed(fileId) == CallsOf(fileId) # {} /\ fileId \notin IdsOf(files)

TimerOps == {"uploadTick", "handoffTimeout", "processingTick"}

\* the order of the phases; error is an end like ready
PhaseRank(status) ==
    CASE status = "uploading" -> 1
      [] status = "processing" -> 2
      [] OTHER -> 3

\* the places of the list whose record a step has changed
Changed(before, after) == {k \in DOMAIN before : after[k] # before[k]}

----------------------------------------------------------------------------
(* C17 *)

\* C17: in the state right after the records with an id are removed, no interval
\* and no timeout of a simulateFileProcessing call for that id is scheduled.
C17_RemoveHaltsDriver ==
    [][ \A fileId \in FileIds :
          (fileId \in IdsOf(files) /\ fileId \notin IdsOf(files'))
             => \A call \in CallsOf(fileId) : drivers'[call].timer = "none" ]_vars

----------------------------------------------------------------------------
(* C18 *)

\* C18: an id whose record was removed stays absent from the list in every later
\* state, and a firing of a timer of a call for that id leaves the list as it is.
C18_RemovedStaysAbsent ==
    [][ \A fileId \in FileIds :
          Removed(fileId) =>
             /\ fileId \notin IdsOf(files')
             /\ \A call \in CallsOf(fileId) :
                   lastOp' \in {CallOp(op, call) : op \in TimerOps} => files' = files ]_vars

----------------------------------------------------------------------------
(* C19 *)

\* C19: with timers that keep firing and increments that are all above 0, the
\* record at a place of the list in phase uploading gets to phase processing with
\* progress 0, and the record at a place of the list in phase processing gets to
\* phase ready with progress 100, unless a record is removed before.
C19_ReachesReady ==
    \A k \in 1..MaxFiles :
        /\ (k \in DOMAIN files /\ files[k].status = "uploading")
              ~> \/ k \notin DOMAIN files
                 \/ lastOp.op = "removeFile"
                 \/ files[k].status = "processing" /\ files[k].progress = 0
        /\ (k \in DOMAIN files /\ files[k].status = "processing")
              ~> \/ k \notin DOMAIN files
                 \/ lastOp.op = "removeFile"
                 \/ files[k].status = "ready" /\ files[k].progress = 100

----------------------------------------------------------------------------
(* C20 *)

\* C20: the progress of every record in the list is within 0..100, in every phase.
C20_ProgressInRange ==
    \A k \in DOMAIN files : files[k].progress >= 0 /\ files[k].progress <= 100

\* one record is ready at 100 while another is one tick short of it in processing
C20_Witness ==
    /\ \E k \in DOMAIN files : files[k].status = "ready" /\ files[k].progress = 100
    /\ \E k \in DOMAIN files : files[k].status = "processing" /\ files[k].progress = 98
    /\ lastOp.op = "processingTick"

----------------------------------------------------------------------------
(* C21 *)

\* C21: in a step that removes no record, a record that stays in its phase does
\* not lose progress; the progress goes down only in the step from uploading to
\* processing, that step sets it to 0, and no record comes back to uploading for a
\* second such step.
C21_ProgressMonotone ==
    [][ Len(files') >= Len(files) =>
          \A k \in DOMAIN files :
             LET before == files[k]
                 after == files'[k]
             IN  /\ before.status = after.status => after.progress >= before.progress
                 /\ after.progress < before.progress
                       => before.status = "uploading" /\ after.status = "processing"
                 /\ (before.status = "uploading" /\ after.status = "processing")
                       => after.progress = 0
                 /\ before.status # "uploading" => after.status # "uploading" ]_vars

----------------------------------------------------------------------------
(* C22 *)

\* C22: in a step that removes no record, a record in phase ready or error is left
\* as it is, and no record moves to an earlier phase.
C22_PhasesOnlyAdvance ==
    [][ Len(files') >= Len(files) =>
          \A k \in DOMAIN files :
             /\ files[k].status \in {"ready", "error"} => files'[k] = files[k]
             /\ PhaseRank(files'[k].status) >= PhaseRank(files[k].status) ]_vars

----------------------------------------------------------------------------
(* C23 *)

\* C23: a firing of a timer of one call changes at most the one record of that call
\* and leaves the timers of every other call as they are; a removal takes one
\* record out of the list and leaves the timers of every other call as they are.
C23_DriversIndependent ==
    [][ /\ \A call \in DOMAIN drivers :
              lastOp' \in {CallOp(op, call) : op \in TimerOps} =>
                 /\ Cardinality(Changed(files, files')) <= 1
                 /\ \A other \in DOMAIN drivers \ {call} : drivers'[other] = drivers[other]
        /\ lastOp'.op = "removeFile" =>
              /\ Len(files') >= Len(files) - 1
              /\ drivers' = drivers ]_vars

----------------------------------------------------------------------------
(* C24 *)

\* C24: handleFileUpload with a list of n files leaves the records listed before
\* as they are and in their order, and puts n records behind them, in the order of
\* the list, with the files' names and sizes, each in phase uploading with progress
\* 0; the earlier calls' timers are left alone, and for each new record one call
\* starts, for the id of that record, with an upload interval that starts at 0.
C24_AppendsInOrder ==
    [][ \A fileList \in FileLists :
          ( /\ lastOp' = CallOp("handleFileUpload", Len(drivers) + 1)
            /\ Len(drivers') = Len(drivers) + Len(fileList) )
          => /\ Len(files') = Len(files) + Len(fileList)
             /\ SubSeq(files', 1, Len(files)) = files
             /\ SubSeq(drivers', 1, Len(drivers)) = drivers
             /\ \A k \in DOMAIN fileList :
                   LET new == files'[Len(files) + k]
                   IN  /\ new.name = fileList[k].name
                       /\ new.size = fileList[k].size
                       /\ new.status = "uploading"
                       /\ new.progress = 0
                       /\ new.id \in FileIds
                       /\ drivers'[Len(drivers) + k] = Driver(new.id, "uploadInterval", 0)
          ]_vars

\* two files have just been added in one list: report.pdf first, notes.txt second
C24_Witness ==
    /\ lastOp = CallOp("handleFileUpload", 1)
    /\ Len(files) = 2
    /\ files[1].name = "report.pdf" /\ files[2].name = "notes.txt"
    /\ \A k \in DOMAIN files : drivers[k] = Driver(files[k].id, "uploadInterval", 0)

----------------------------------------------------------------------------
(* C26 *)

\* C26: an id in the list is still in the list after every step that is not the
\* removal of that id, also after a step that selects another tab.
C26_RecordStaysUntilRemoved ==
    [][ \A fileId \in IdsOf(files) :
          lastOp' # UploadOp("removeFile", fileId) => fileId \in IdsOf(files') ]_vars

----------------------------------------------------------------------------
(* C27 *)

\* C27: while a record is in phase processing no call for its id has its upload
\* interval scheduled, and as long as every call for its id still waits for the
\* hand-off timeout the progress of the record is 0.
C27_OneDriverAtATime ==
    \A k \in DOMAIN files :
        LET timers == {drivers[call].timer : call \in CallsOf(files[k].id)}
        IN  files[k].status = "processing" =>
               /\ "uploadInterval" \notin timers
               /\ timers \subseteq {"timeout"} => files[k].progress = 0

=============================================================================
